---- MODULE Spec2Model ----
(***************************************************************************)
(* A model of slack_delete.py: one run of main(), i.e. list_files followed *)
(* by delete_files, with the remote service and the user (Ctrl-C) as the   *)
(* environment.  Strings that the program inspects (MIME types) are        *)
(* sequences of one-character strings; the clock is kept in tenths of a    *)
(* second so that int(time.time()) is a real truncation.                   *)
(***************************************************************************)
EXTENDS Integers, Sequences, FiniteSets, TLC

VARIABLES pc, options, now, requests, resp, files, log, count,
          size_to_delete, num_files, bound, idx, dresponse, exc,
          exit_status, interrupted

vars == <<pc, options, now, requests, resp, files, log, count,
          size_to_delete, num_files, bound, idx, dresponse, exc,
          exit_status, interrupted>>

(***************************************************************************)
(* Bounds of the model.                                                    *)
(***************************************************************************)
\* longest listing response the remote returns
MaxFiles == 2

\* clock resolution: ticks of `now' per second
TicksPerSecond == 10

(***************************************************************************)
(* Program constants.                                                      *)
(***************************************************************************)
mimetypes == << <<"a","u","d","i","o">>,
                <<"i","m","a","g","e">>,
                <<"v","i","d","e","o">> >>

wait_seconds == 2

FilesListUri == "https://slack.com/api/files.list"

\* the endpoint the deleter is documented to use (left commented out)
FilesDeleteUri == "https://slack.com/api/files.delete"

\* the uri delete_files actually assigns
delete_files_uri == FilesListUri

TimestampFormat == "%Y-%m-%d %H:%M:%S"

(***************************************************************************)
(* Inputs: command lines, clock readings and remote answers.               *)
(***************************************************************************)
TokenSamples == {"xoxp-1"}
DaysSamples  == {-1, 0, 1, 30}
CountSamples == {1, 1000}
\* clock readings, in ticks: 2592000.9 s and 5184000.0 s
NowSamples   == {2592000 * TicksPerSecond + (TicksPerSecond - 1), 5184000 * TicksPerSecond}

\* remote files; ids are unique within one listing
RemoteFiles ==
  { [id |-> "F1", name |-> "a.png", timestamp |-> 1000, size |-> 100,
     mimetype |-> <<"i","m","a","g","e","/","p","n","g">>],
    [id |-> "F2", name |-> "n.txt", timestamp |-> 5000, size |-> 50,
     mimetype |-> <<"t","e","x","t","/","p","l","a","i","n">>],
    [id |-> "F3", name |-> "s.bin", timestamp |-> 3000, size |-> 7,
     mimetype |-> <<"x","-","a","u","d","i","o">>],
    [id |-> "F4", name |-> "m.mp4", timestamp |-> 2000, size |-> 0,
     mimetype |-> <<"v","i","d","e","o","/","m","p","4">>],
    [id |-> "F5", name |-> "b.GIF", timestamp |-> 4000, size |-> 20,
     mimetype |-> <<"I","m","a","g","e","/","g","i","f">>] }

\* listings: sequences without repetition, at most MaxFiles long
Listings ==
  UNION { { s \in [1..n -> RemoteFiles] :
              \A i, j \in 1..n : i # j => s[i].id # s[j].id } : n \in 0..MaxFiles }

\* what the listing endpoint can answer with
ListingBodies ==
  { [ok |-> TRUE, files |-> l] : l \in Listings }
    \cup { [ok |-> FALSE, error |-> "invalid_auth"] }

ErrorReasons == {"not_found", "cant_delete_file"}

\* what the endpoint asked by the delete loop can answer with
DeleteBodies == { [ok |-> TRUE] } \cup { [ok |-> FALSE, error |-> r] : r \in ErrorReasons }

(***************************************************************************)
(* Pure functions of the program.                                          *)
(***************************************************************************)
\* int(x) of a non-negative clock reading: truncation to whole seconds
int(t) == t \div TicksPerSecond

\* datetime.fromtimestamp(ts).strftime(fmt): a formatted rendering of ts
Strftime(ts) == [format |-> TimestampFormat, epoch |-> ts]

current_timestamp(t) == Strftime(int(t))

calculate_days_plus(t, days) == int(t) + days * 24 * 60 * 60

calculate_days(t, days) == int(t) - days * 24 * 60 * 60

\* `sub in s' for Python strings: leftmost scan
RECURSIVE FindFrom(_, _, _)
FindFrom(sub, s, i) ==
  IF i + Len(sub) - 1 > Len(s) THEN FALSE
  ELSE IF SubSeq(s, i, i + Len(sub) - 1) = sub THEN TRUE
  ELSE FindFrom(sub, s, i + 1)

StrIn_startswith(sub, s) ==
  Len(sub) <= Len(s) /\ SubSeq(s, 1, Len(sub)) = sub

StrIn(sub, s) == FindFrom(sub, s, 1)

\* any([mimetype in f['mimetype'] for mimetype in mimetypes])
AnyMimetype(m) == \E k \in 1..Len(mimetypes) : StrIn(mimetypes[k], m)

\* the dict appended for a matching file
FileRecord(f) ==
  [id |-> f.id, name |-> f.name, timestamp |-> Strftime(f.timestamp),
   mimetype |-> f.mimetype, size |-> f.size]

\* the for loop of list_files
RECURSIVE FilterLoop(_, _)
FilterLoop(r, acc) ==
  IF r = <<>> THEN acc
  ELSE FilterLoop(Tail(r),
                  IF AnyMimetype(Head(r).mimetype)
                  THEN Append(acc, FileRecord(Head(r)))
                  ELSE acc)

\* the params dict of the listing request
list_params(o, t) ==
  IF o.days # 0
  THEN [token |-> o.token, count |-> o.count, ts_to |-> calculate_days(t, o.days)]
  ELSE [token |-> o.token, count |-> o.count]

\* sum([int(f['size']) for f in files])
SumSizes_head(fs) == IF fs = <<>> THEN 0 ELSE Head(fs).size

RECURSIVE SumSizes(_)
SumSizes(fs) == IF fs = <<>> THEN 0 ELSE Head(fs).size + SumSizes(Tail(fs))

\* the tuple list printed before the loop
Listing(fs) ==
  [i \in 1..Len(fs) |->
     <<fs[i].id, fs[i].name, fs[i].timestamp, fs[i].mimetype, fs[i].size>>]

\* the locals the finally block of delete_files reads
SummaryLocals == {"size_to_delete", "num_files", "count"}

\* how far the assignments before the first print can have got
PartialLocals == { {}, {"count"}, {"count", "size_to_delete"} }

(***************************************************************************)
(* Initial state: options parsed, nothing requested yet.                   *)
(***************************************************************************)
Init ==
  /\ pc = "fetch"
  /\ options \in [token : TokenSamples, days : DaysSamples,
                  count : CountSamples, dry_run : BOOLEAN]
  /\ now \in NowSamples
  /\ requests = <<>>
  /\ resp = [kind |-> "pending"]
  /\ files = <<>>
  /\ log = <<>>
  /\ count = 0
  /\ size_to_delete = 0
  /\ num_files = 0
  /\ bound = {}
  /\ idx = 0
  /\ dresponse = [ok |-> TRUE]
  /\ exc = "none"
  /\ exit_status = -1
  /\ interrupted = FALSE

(***************************************************************************)
(* list_files                                                              *)
(***************************************************************************)
\* main prints, list_files prints, builds params and calls requests.get
ListFilesSend ==
  /\ pc = "fetch"
  /\ log' = log \o << [line |-> "fetching"],
                      [line |-> "older_than", at |-> current_timestamp(now),
                       days |-> options.days] >>
  /\ requests' = Append(requests,
                        [uri |-> FilesListUri, params |-> list_params(options, now)])
  /\ pc' = "list_wait"
  /\ UNCHANGED <<options, now, resp, files, count, size_to_delete, num_files,
                 bound, idx, dresponse, exc, exit_status, interrupted>>

\* the response parses and has a files array: filter it and return
ListFilesReceive ==
  /\ pc = "list_wait"
  /\ \E body \in ListingBodies :
       /\ "files" \in DOMAIN body
       /\ resp' = [kind |-> "json", body |-> body]
       /\ files' = FilterLoop(body.files, <<>>)
  /\ pc' = "deleting"
  /\ UNCHANGED <<options, now, requests, log, count, size_to_delete, num_files,
                 bound, idx, dresponse, exc, exit_status, interrupted>>

\* where an exception raised inside list_files takes main
AfterListFailure_caught == "deleting"

AfterListFailure == "unhandled"

\* requests.get raises, the text is not JSON, or the JSON has no 'files'
ListFilesFail ==
  /\ pc = "list_wait"
  /\ \/ resp' = [kind |-> "raised"]
     \/ resp' = [kind |-> "not_json"]
     \/ \E body \in ListingBodies :
          /\ "files" \notin DOMAIN body
          /\ resp' = [kind |-> "json", body |-> body]
  /\ exc' = "Exception"
  /\ pc' = AfterListFailure
  /\ UNCHANGED <<options, now, requests, files, log, count, size_to_delete,
                 num_files, bound, idx, dresponse, exit_status, interrupted>>

(***************************************************************************)
(* main between the two calls                                              *)
(***************************************************************************)
MainDeleting ==
  /\ pc = "deleting"
  /\ log' = Append(log, [line |-> "deleting"])
  /\ pc' = "delete_try"
  /\ UNCHANGED <<options, now, requests, resp, files, count, size_to_delete,
                 num_files, bound, idx, dresponse, exc, exit_status, interrupted>>

(***************************************************************************)
(* delete_files                                                            *)
(***************************************************************************)
\* count = 0, size_to_delete = sum(...), num_files = len(files)
DeleteFilesTotals ==
  /\ pc = "delete_try"
  /\ count' = 0
  /\ size_to_delete' = SumSizes(files)
  /\ num_files' = Len(files)
  /\ bound' = SummaryLocals
  /\ idx' = 0
  /\ pc' = "delete_report"
  /\ UNCHANGED <<options, now, requests, resp, files, log, dresponse, exc,
                 exit_status, interrupted>>

\* the two prints, then `if view_only: return'
DeleteFilesReport ==
  /\ pc = "delete_report"
  /\ log' = log \o << [line |-> "found", at |-> current_timestamp(now),
                       num_files |-> num_files, bytes |-> size_to_delete],
                      [line |-> "listing", rows |-> Listing(files)] >>
  /\ pc' = IF options.dry_run THEN "finally" ELSE "loop"
  /\ UNCHANGED <<options, now, requests, resp, files, count, size_to_delete,
                 num_files, bound, idx, dresponse, exc, exit_status, interrupted>>

\* the record the loop takes after idx records
LoopRecord_reversed(fs, i) == fs[Len(fs) - i]

LoopRecord(fs, i) == fs[i + 1]

\* count += 1
NextCount_same(c) == c

NextCount(c) == c + 1

\* next iteration: count += 1, build params, call requests.get
LoopNext ==
  /\ pc = "loop"
  /\ idx < Len(files)
  /\ count' = NextCount(count)
  /\ idx' = idx + 1
  /\ requests' = Append(requests,
                        [uri |-> delete_files_uri,
                         params |-> [token |-> options.token,
                                     file |-> LoopRecord(files, idx).id]])
  /\ pc' = "delete_wait"
  /\ UNCHANGED <<options, now, resp, files, log, size_to_delete, num_files,
                 bound, dresponse, exc, exit_status, interrupted>>

\* the for loop is exhausted
LoopExit ==
  /\ pc = "loop"
  /\ idx >= Len(files)
  /\ pc' = "finally"
  /\ UNCHANGED <<options, now, requests, resp, files, log, count, size_to_delete,
                 num_files, bound, idx, dresponse, exc, exit_status, interrupted>>

\* the response parses: dresponse = json.loads(...)
DeleteReceive ==
  /\ pc = "delete_wait"
  /\ dresponse' \in DeleteBodies
  /\ pc' = "delete_sleep"
  /\ UNCHANGED <<options, now, requests, resp, files, log, count, size_to_delete,
                 num_files, bound, idx, exc, exit_status, interrupted>>

\* requests.get or json.loads raises inside the loop
DeleteRaise ==
  /\ pc = "delete_wait"
  /\ exc' = "Exception"
  /\ pc' = "finally"
  /\ UNCHANGED <<options, now, requests, resp, files, log, count, size_to_delete,
                 num_files, bound, idx, dresponse, exit_status, interrupted>>

\* the line printed for one answered request
OutcomeLine(f, d, t) ==
  IF d.ok
  THEN [line |-> "deleted", at |-> current_timestamp(t), id |-> f.id,
        name |-> f.name, timestamp |-> f.timestamp]
  ELSE [line |-> "unable", at |-> current_timestamp(t), id |-> f.id,
        name |-> f.name, reason |-> d.error]

\* where the loop body goes after printing an outcome
AfterOutcome_break(d) == IF d.ok THEN "loop" ELSE "finally"

AfterOutcome(d) == "loop"

\* time.sleep(wait_seconds), then the outcome print
DeleteSleepAndLog ==
  /\ pc = "delete_sleep"
  /\ now' = now + wait_seconds * TicksPerSecond
  /\ log' = Append(log, OutcomeLine(files[idx], dresponse, now'))
  /\ pc' = AfterOutcome(dresponse)
  /\ UNCHANGED <<options, requests, resp, files, count, size_to_delete,
                 num_files, bound, idx, dresponse, exc, exit_status, interrupted>>

\* whether the finally block gets to print its summary
SummaryPrintable(b) == SummaryLocals \subseteq b

\* where control goes when the finally block ends with exception e pending
AfterFinally_swallow(e) == "main_done"

AfterFinally(e) ==
  IF e = "none" THEN "main_done"
  ELSE IF e = "KeyboardInterrupt" THEN "except"
  ELSE "unhandled"

\* the finally block: print the summary, then return or re-raise;
\* reading a local that was never assigned raises instead
DeleteFinally ==
  /\ pc = "finally"
  /\ IF SummaryPrintable(bound)
     THEN /\ log' = Append(log, [line |-> "attempted", at |-> current_timestamp(now),
                                 bytes |-> size_to_delete, num_files |-> num_files,
                                 count |-> count])
          /\ pc' = AfterFinally(exc)
          /\ exc' = exc
     ELSE /\ log' = log
          /\ exc' = "UnboundLocalError"
          /\ pc' = "unhandled"
  /\ UNCHANGED <<options, now, requests, resp, files, count, size_to_delete,
                 num_files, bound, idx, dresponse, exit_status, interrupted>>

(***************************************************************************)
(* main: the end of the try block, its handler, and the runtime            *)
(***************************************************************************)
MainDone ==
  /\ pc = "main_done"
  /\ log' = Append(log, [line |-> "done"])
  /\ exit_status' = 0
  /\ pc' = "exited"
  /\ UNCHANGED <<options, now, requests, resp, files, count, size_to_delete,
                 num_files, bound, idx, dresponse, exc, interrupted>>

\* except KeyboardInterrupt: print, exit(1)
MainExcept ==
  /\ pc = "except"
  /\ log' = Append(log, [line |-> "aborted"])
  /\ exit_status' = 1
  /\ exc' = "none"
  /\ pc' = "exited"
  /\ UNCHANGED <<options, now, requests, resp, files, count, size_to_delete,
                 num_files, bound, idx, dresponse, interrupted>>

\* an exception main has no handler for leaves main: traceback, status 1
Unhandled ==
  /\ pc = "unhandled"
  /\ log' = Append(log, [line |-> "traceback", exception |-> exc])
  /\ exit_status' = 1
  /\ pc' = "exited"
  /\ UNCHANGED <<options, now, requests, resp, files, count, size_to_delete,
                 num_files, bound, idx, dresponse, exc, interrupted>>

(***************************************************************************)
(* The user: one Ctrl-C somewhere inside main's try block.                 *)
(***************************************************************************)
InMainOnly == {"fetch", "list_wait", "deleting", "main_done"}
InDeleteTry == {"delete_try", "delete_report", "loop", "delete_wait", "delete_sleep"}

Interrupt ==
  /\ ~interrupted
  /\ pc \in InMainOnly \cup InDeleteTry
  /\ interrupted' = TRUE
  /\ exc' = "KeyboardInterrupt"
  /\ pc' = IF pc \in InDeleteTry THEN "finally" ELSE "except"
  /\ IF pc = "delete_try"
     THEN /\ bound' \in PartialLocals
          /\ size_to_delete' = IF "size_to_delete" \in bound' THEN SumSizes(files) ELSE 0
     ELSE UNCHANGED <<bound, size_to_delete>>
  /\ UNCHANGED <<options, now, requests, resp, files, log, count, num_files,
                 idx, dresponse, exit_status>>

Next ==
  \/ ListFilesSend
  \/ ListFilesReceive
  \/ ListFilesFail
  \/ MainDeleting
  \/ DeleteFilesTotals
  \/ DeleteFilesReport
  \/ LoopNext
  \/ LoopExit
  \/ DeleteReceive
  \/ DeleteRaise
  \/ DeleteSleepAndLog
  \/ DeleteFinally
  \/ MainDone
  \/ MainExcept
  \/ Unhandled
  \/ Interrupt

Spec == Init /\ [][Next]_vars

(***************************************************************************)
(* Vocabulary of the properties.                                           *)
(***************************************************************************)
\* requests carrying a file id: the ones the delete loop issues
DeleteRequests == SelectSeq(requests, LAMBDA r : "file" \in DOMAIN r.params)

\* requests carrying a count: the ones list_files issues
ListRequests == SelectSeq(requests, LAMBDA r : "count" \in DOMAIN r.params)

Lines(kind) == SelectSeq(log, LAMBDA l : l.line = kind)

HasLine(kind) == \E i \in 1..Len(log) : log[i].line = kind

\* list_files ended by raising
ListFailed ==
  \/ resp.kind \in {"raised", "not_json"}
  \/ resp.kind = "json" /\ "files" \notin DOMAIN resp.body

\* list_files returned a list
ListReturned == resp.kind = "json" /\ "files" \in DOMAIN resp.body

\* delete_files ran to its end with no exception pending
DeleteCompleted ==
  \/ pc = "finally" /\ exc = "none"
  \/ pc = "main_done"
  \/ HasLine("done")

\* p occurs in s right after the first off characters
OccursAt(s, p, off) ==
  /\ off + Len(p) <= Len(s)
  /\ \A k \in 1..Len(p) : s[off + k] = p[k]

HasSubstring(s, p) == \E off \in 0..Len(s) : OccursAt(s, p, off)

IsMedia(m) ==
  \/ HasSubstring(m, <<"a","u","d","i","o">>)
  \/ HasSubstring(m, <<"i","m","a","g","e">>)
  \/ HasSubstring(m, <<"v","i","d","e","o">>)

\* sum of the size fields, taken in index order from the back
RECURSIVE TotalBytes(_, _)
TotalBytes(fs, n) == IF n = 0 THEN 0 ELSE TotalBytes(fs, n - 1) + fs[n].size

(***************************************************************************)
(* C1: in dry-run mode delete_files issues no deletion request; otherwise  *)
(* the deletion requests issued so far carry the ids of a prefix of the    *)
(* input sequence, in input order, and once delete_files has completed     *)
(* without an exception there is exactly one request per input record.     *)
(***************************************************************************)
C1_DeleteRequestsFollowInput ==
  /\ options.dry_run => DeleteRequests = <<>>
  /\ Len(DeleteRequests) <= Len(files)
  /\ \A k \in 1..Len(DeleteRequests) :
       /\ DeleteRequests[k].params.file = files[k].id
       /\ DeleteRequests[k].params.token = options.token
  /\ (~options.dry_run /\ DeleteCompleted) => Len(DeleteRequests) = Len(files)

C1_Witness ==
  /\ pc = "main_done"
  /\ ~options.dry_run
  /\ Len(files) = 2
  /\ files[1].id = "F4" /\ files[2].id = "F1"
  /\ Len(DeleteRequests) = 2

(***************************************************************************)
(* C2: the list list_files returns is exactly the subsequence, in response *)
(* order, of the response's records whose mimetype contains "audio",       *)
(* "image" or "video".                                                     *)
(***************************************************************************)
C2_FilterIsMediaSubsequence ==
  ListReturned =>
    LET L == resp.body.files
        Kept == { i \in 1..Len(L) : IsMedia(L[i].mimetype) }
    IN /\ Len(files) = Cardinality(Kept)
       /\ \A i \in Kept :
            LET k == Cardinality({ j \in Kept : j <= i })
            IN /\ files[k].id = L[i].id
               /\ files[k].name = L[i].name
               /\ files[k].mimetype = L[i].mimetype
               /\ files[k].size = L[i].size

C2_Witness ==
  /\ pc = "deleting"
  /\ ListReturned
  /\ Len(resp.body.files) = 2
  /\ resp.body.files[1].id = "F5"
  /\ resp.body.files[2].id = "F3"
  /\ Len(files) = 1
  /\ files[1].id = "F3"

(***************************************************************************)
(* C3: every initial and final summary line of delete_files reports the    *)
(* sum of the input sizes and the number of input records, and the two     *)
(* totals keep those values from their assignment on, whatever the         *)
(* outcomes of the items are.                                              *)
(***************************************************************************)
C3_TotalsEqualInput ==
  /\ \A i \in 1..Len(log) :
       log[i].line \in {"found", "attempted"} =>
         /\ log[i].bytes = TotalBytes(files, Len(files))
         /\ log[i].num_files = Len(files)
  /\ SummaryLocals \subseteq bound =>
       /\ size_to_delete = TotalBytes(files, Len(files))
       /\ num_files = Len(files)

C3_Witness ==
  /\ pc = "exited"
  /\ Len(files) = 2
  /\ files[1].id = "F1" /\ files[2].id = "F3"
  /\ HasLine("unable")
  /\ HasLine("deleted")
  /\ Len(Lines("attempted")) = 1
  /\ Lines("attempted")[1].bytes = 107
  /\ Lines("found")[1].bytes = 107

(***************************************************************************)
(* C4: the listing request carries the token and the count of the command  *)
(* line; with days = N > 0 it carries ts_to = now - N*86400, now being the *)
(* clock in whole seconds; with days = 0 it carries no ts_to.              *)
(***************************************************************************)
C4_ListingParams ==
  pc = "list_wait" =>
    LET p == requests[Len(requests)].params
    IN /\ p.token = options.token
       /\ p.count = options.count
       /\ options.days > 0 =>
            /\ "ts_to" \in DOMAIN p
            /\ LET s == p.ts_to + options.days * 86400
               IN s * TicksPerSecond <= now /\ now < (s + 1) * TicksPerSecond
       /\ options.days = 0 => DOMAIN p = {"token", "count"}

C4_Witness ==
  /\ pc = "list_wait"
  /\ options.days = 30
  /\ now = 5184000 * TicksPerSecond
  /\ requests[1].params.ts_to = 2592000

(***************************************************************************)
(* C5: after a not-ok answer the loop body prints the failure line with    *)
(* the remote's reason and goes back to the loop head, leaving the counter *)
(* and the requests as they are; no record is requested twice, and each    *)
(* answered request so far has been followed by the next one or the loop   *)
(* is ready to issue it.                                                   *)
(***************************************************************************)
C5_NotOkStep ==
  (pc = "delete_sleep" /\ ~dresponse.ok /\ interrupted' = interrupted) =>
     /\ log' = Append(log, [line |-> "unable",
                            at |-> Strftime((now + 2 * TicksPerSecond) \div TicksPerSecond),
                            id |-> files[idx].id, name |-> files[idx].name,
                            reason |-> dresponse.error])
     /\ pc' = "loop"
     /\ count' = count
     /\ idx' = idx
     /\ requests' = requests

C5_NotOkState ==
  /\ \A i, j \in 1..Len(DeleteRequests) :
       DeleteRequests[i].params.file = DeleteRequests[j].params.file => i = j
  /\ \A i \in 1..Len(log) :
       log[i].line = "unable" =>
         \E k \in 1..Len(DeleteRequests) :
           /\ DeleteRequests[k].params.file = log[i].id
           /\ k <= count
  /\ (pc = "loop" /\ idx < Len(files)) => ENABLED LoopNext

C5_NotOkContinues == []C5_NotOkState /\ [][C5_NotOkStep]_vars

C5_Witness ==
  /\ Len(files) = 2
  /\ Len(log) >= 1
  /\ \E i \in 1..Len(log) :
       /\ log[i].line = "unable"
       /\ log[i].id = files[1].id
       /\ log[i].reason = "not_found"
  /\ Len(DeleteRequests) = 2
  /\ DeleteRequests[2].params.file = files[2].id
  /\ count = 2

(***************************************************************************)
(* C6: once the totals are assigned, delete_files prints its final summary *)
(* exactly once before control leaves it, on normal completion and when an *)
(* exception is raised in the loop; the finally block keeps the pending    *)
(* exception, which then reaches main's handler or leaves main.            *)
(***************************************************************************)
C6_FinallyStep ==
  (pc = "finally" /\ SummaryLocals \subseteq bound) =>
     /\ log' = Append(log, [line |-> "attempted", at |-> Strftime(now \div TicksPerSecond),
                            bytes |-> size_to_delete, num_files |-> num_files,
                            count |-> count])
     /\ exc' = exc
     /\ exc = "none" => pc' = "main_done"
     /\ exc = "KeyboardInterrupt" => pc' = "except"
     /\ exc = "Exception" => pc' = "unhandled"

C6_SummaryState ==
  /\ (SummaryLocals \subseteq bound /\ pc \in {"main_done", "except", "unhandled", "exited"})
       => Len(Lines("attempted")) = 1
  /\ pc \in InDeleteTry \cup {"finally"} => Len(Lines("attempted")) = 0
  /\ (pc = "exited" /\ exc = "Exception") =>
       /\ ~HasLine("done")
       /\ exit_status = 1
       /\ log[Len(log)] = [line |-> "traceback", exception |-> "Exception"]

C6_SummaryOnceThenPropagate == []C6_SummaryState /\ [][C6_FinallyStep]_vars

C6_Witness ==
  /\ pc = "unhandled"
  /\ exc = "Exception"
  /\ Len(files) = 2
  /\ count = 1
  /\ Len(Lines("attempted")) = 1
  /\ log[Len(log)].line = "attempted"

(***************************************************************************)
(* C7: every deletion request goes to the file-deletion endpoint with the  *)
(* parameters token and file, and the file-listing endpoint is requested   *)
(* by list_files only.                                                     *)
(***************************************************************************)
C7_DeleteEndpoint ==
  \A i \in 1..Len(requests) :
    /\ "file" \in DOMAIN requests[i].params =>
         /\ requests[i].uri = FilesDeleteUri
         /\ DOMAIN requests[i].params = {"token", "file"}
    /\ requests[i].uri = FilesListUri => "count" \in DOMAIN requests[i].params

(***************************************************************************)
(* C8: a run that was interrupted during the listing or the delete/report  *)
(* step ends with the abort notice printed, no 'Done' line and exit status *)
(* 1, and issues no request after the interruption; a run that was not     *)
(* interrupted never prints the abort notice.                              *)
(***************************************************************************)
C8_AbortState ==
  /\ (interrupted /\ pc = "exited") =>
       /\ HasLine("aborted")
       /\ ~HasLine("done")
       /\ exit_status = 1
  /\ ~interrupted => ~HasLine("aborted")

C8_AbortStep == interrupted => requests' = requests

C8_InterruptAborts == []C8_AbortState /\ [][C8_AbortStep]_vars

(***************************************************************************)
(* C9: a run issues at most one listing request, it is the first request   *)
(* of the run and list_files has returned before any deletion request; a   *)
(* run that finishes normally issued exactly one.  When list_files raises, *)
(* the exception leaves main unhandled: no abort notice, delete_files is   *)
(* never entered, no deletion request and no summary line.                 *)
(***************************************************************************)
C9_SingleListingThenDelete ==
  /\ Len(ListRequests) = (IF requests = <<>> THEN 0 ELSE 1)
  /\ requests # <<>> => "count" \in DOMAIN requests[1].params
  /\ DeleteRequests # <<>> => ListReturned
  /\ pc \notin {"fetch", "except", "exited"} => Len(ListRequests) = 1
  /\ HasLine("done") => Len(ListRequests) = 1
  /\ ListFailed =>
       /\ exc = "Exception"
       /\ pc \in {"unhandled", "exited"}
       /\ ~HasLine("aborted")
       /\ ~HasLine("done")
       /\ ~HasLine("deleting")
       /\ ~HasLine("found")
       /\ ~HasLine("attempted")
       /\ bound = {}
       /\ DeleteRequests = <<>>
       /\ Len(requests) = 1
       /\ pc = "exited" => exit_status = 1 /\ HasLine("traceback")

C9_Witness ==
  /\ pc = "exited"
  /\ resp.kind = "json"
  /\ "files" \notin DOMAIN resp.body
  /\ Len(requests) = 1
  /\ exit_status = 1

(***************************************************************************)
(* C10: the count of the final summary is the number of deletion requests  *)
(* started, not the number of ok answers: 0 in dry-run mode, the number of *)
(* input records on normal completion, k when the k-th request raises; it  *)
(* always lies between 0 and the number of input records.                  *)
(***************************************************************************)
C10_CountIsAttempts ==
  /\ 0 <= count /\ count <= Len(files)
  /\ count = Len(DeleteRequests)
  /\ \A i \in 1..Len(log) :
       log[i].line = "attempted" =>
         /\ log[i].count = Len(DeleteRequests)
         /\ options.dry_run => log[i].count = 0
         /\ (exc = "none" /\ ~options.dry_run /\ ~interrupted) => log[i].count = Len(files)
         /\ exc = "Exception" =>
              /\ log[i].count >= 1
              /\ DeleteRequests[log[i].count].params.file = files[log[i].count].id
              /\ Len(Lines("deleted")) + Len(Lines("unable")) = log[i].count - 1

C10_Witness ==
  /\ pc = "unhandled"
  /\ exc = "Exception"
  /\ Len(files) = 2
  /\ HasLine("unable")
  /\ Len(Lines("attempted")) = 1
  /\ Lines("attempted")[1].count = 2

====
